---- MODULE Spec2Model ----
(***************************************************************************)
(* Model of the invoice cache and settlement stream consumer of            *)
(* ljightningparking/lnd (src/lnd/handler.go).                             *)
(*                                                                         *)
(* Actors: two request goroutines that run Handler.GetInvoice calls (up to *)
(* MaxCalls calls in all), one reaper goroutine per stored invoice, the    *)
(* single RunInvoiceChecker consumer goroutine, and one goroutine issuing  *)
(* CheckInvoice calls.                                                     *)
(* A critical section (Lock ... Unlock) is one step, enabled when the      *)
(* mutex is free; the consumer alone stays inside its critical section     *)
(* across steps, while sms.Send is in progress.                            *)
(***************************************************************************)
EXTENDS Integers, Sequences, FiniteSets, TLC

\* ---------------------------------------------------------------- bounds
MaxCalls   == 2
MaxTicks   == 2
\* GetInvoice calls in the specification with fair scheduling
MaxCallsLive == 1
\* /check requests the handlers server accepts
MaxRequests == 3
\* /check-payment polls the LNbits server serves
MaxPolls == 3
\* largest number of hours asked for in a GetParkingFee call
MaxHours == 14

\* ----------------------------------------------------- program constants
\* {"expiry": 300 ...}, now + 300, time.Sleep(300*time.Second)
TTL == 300

\* payment hashes of LNbits invoices
Hashes == {1, 2}

\* ------------------------------------------------------------ data types
\* Two request goroutines can be inside GetInvoice at the same time.
Callers == {1, 2}
\* GetInvoice calls are numbered in the order they are made.
CallIds == 1 .. MaxCalls

\* InvoiceKey{zone, plate, hours}; the two fingerprints of the scenarios.
KeyA == [Zone |-> "A1", Plate |-> "XY123", Hours |-> 2]
KeyB == [Zone |-> "B1", Plate |-> "Z1", Hours |-> 1]
Keys == {KeyA, KeyB}

\* InvoiceKey.Message: fmt.Sprintf("%s %s %d", zone name, plate, hours)
Message(k) == <<k.Zone, " ", k.Plate, " ", k.Hours>>

\* Payment requests are strings; 0 stands for the empty string "", i > 0
\* for the i-th payment request the lnd node has created.
EmptyRef == 0
Refs == 0 .. MaxCalls

\* Invoice{PaymentRequest, Expiry}
Invoice(pr, exp) == [PaymentRequest |-> pr, Expiry |-> exp]
\* Invoice{} (the zero value)
ZeroInvoice == Invoice(EmptyRef, 0)

\* Go map operations
MapSet(m, k, v) == [x \in (DOMAIN m) \cup {k} |-> IF x = k THEN v ELSE m[x]]
MapDelete(m, k) == [x \in (DOMAIN m) \ {k} |-> m[x]]
EmptyMap == [x \in {} |-> 0]

\* Holders of InvoiceCache.Mutex
Free == <<"free", 0>>
ByConsumer == <<"RunInvoiceChecker", 0>>

\* The clock advances in steps of one validity window.
TickSizes == {TTL}

VARIABLES
    keyToInvoice,   \* h.invoices.keyToInvoice
    invoiceToKey,   \* h.invoices.invoiceToKey
    mutex,          \* holder of h.invoices.Mutex
    now,            \* time.Now().Unix()
    crashed,        \* the process has exited through log.Fatalf
    gi,             \* per caller: position and locals of its GetInvoice call
    calls,          \* number of GetInvoice calls made so far
    handedOut,      \* payment requests GetInvoice has returned
    nextRef,        \* next payment request the lnd node will create
    reaper,         \* per call: the goroutine started at handler.go:158
    rc,             \* position and locals of RunInvoiceChecker
    sent,           \* sms.Send invocations so far, in order
    ci,             \* position and locals of the CheckInvoice caller
    boot,           \* the handlers server: main and its CheckHandler requests
    pay,            \* the LNbits server: payments and /check-payment polls
    fee             \* the last Zone.GetParkingFee call and its result

\* The state of the programs around the lnd handler; no step of the handler
\* touches it.
webVars == <<boot, pay, fee>>

vars == <<keyToInvoice, invoiceToKey, mutex, now, crashed, gi, calls,
          handedOut, nextRef, reaper, rc, sent, ci, boot, pay, fee>>

GiIdle == [pc |-> "idle", n |-> 0, key |-> KeyA, nowv |-> 0, resp |-> EmptyRef,
           ret |-> ZeroInvoice, issued |-> FALSE]

ReaperNone == [pc |-> "none", ref |-> EmptyRef, wake |-> 0, found |-> FALSE]

\* History kept with the event being processed, not read by the code:
\* live  - its payment request was in the reverse map when it was read
\* sent0 - the number of sms.Send invocations made before it was read
\* and with the loop, for the iteration that ended last:
\* last  - "malformed" if its bytes did not unmarshal, "error" if the event
\*         carried an error field and "open" if its state was not SETTLED
\*         (ref is then the payment request it named), "smsErr" if its
\*         sms.Send returned an error (line 207-209), else "none"
RcStart == [pc |-> "l187", ref |-> EmptyRef, eof |-> FALSE, key |-> KeyA,
            live |-> FALSE, sent0 |-> 0, last |-> "none"]

CiIdle == [pc |-> "idle"]

\* Goroutines of the handlers server that serve /check requests.
Servers == {1, 2}

ReqIdle == [pc |-> "idle", method |-> "GET", param |-> "missing",
            last |-> "none"]

\* The handlers program before main runs: var InvoiceHandler *Handler is nil
\* (handler.go:73), no consumer goroutine, nothing served.
\* History, not read by the code: requests and panics count the /check
\* requests accepted and the panics net/http recovered from; last is the
\* outcome of the request a goroutine served last.
BootStart == [main |-> "l13", InvoiceHandler |-> "nil", consumer |-> FALSE,
              req |-> [g \in Servers |-> ReqIdle], requests |-> 0,
              panics |-> 0]

NoPoll == [hash |-> 0, plate |-> "", zone |-> "", hours |-> "",
           resp |-> "none"]

\* The LNbits server with no invoice paid and no poll served.  History,
\* not read by the code: polls counts the handleCheckPayment calls,
\* sends[h] the sendToParkingServer calls made for payment hash h, last is
\* the poll served last and its response.
PayStart == [paid |-> {}, polls |-> 0, sends |-> [h \in Hashes |-> 0],
             last |-> NoPoll]

\* No GetParkingFee call made yet.
FeeStart == [zone |-> "", hours |-> 0, out |-> 0, called |-> FALSE]

\* InitHandler: both maps empty, mutex free, consumer started.
Init ==
    /\ keyToInvoice = EmptyMap
    /\ invoiceToKey = EmptyMap
    /\ mutex = Free
    /\ now = 0
    /\ crashed = FALSE
    /\ gi = [c \in Callers |-> GiIdle]
    /\ calls = 0
    /\ handedOut = {}
    /\ nextRef = 1
    /\ reaper = [n \in CallIds |-> ReaperNone]
    /\ rc = RcStart
    /\ sent = <<>>
    /\ ci = CiIdle
    /\ boot = BootStart
    /\ pay = PayStart
    /\ fee = FeeStart


\* log.Fatalf: os.Exit(1).  The process and all its goroutines are gone;
\* what remains is what it has sent.
Exited ==
    /\ crashed' = TRUE
    /\ keyToInvoice' = EmptyMap
    /\ invoiceToKey' = EmptyMap
    /\ mutex' = Free
    /\ gi' = [c \in Callers |-> GiIdle]
    /\ reaper' = [n \in CallIds |-> ReaperNone]
    /\ rc' = RcStart
    /\ ci' = CiIdle
    /\ UNCHANGED <<now, calls, handedOut, nextRef, sent>>

\* ------------------------------------------------------------ GetInvoice
\* A request handler calls GetInvoice(zone, plate, hours)      (line 105-107)
\* (of two idle goroutines the first one takes the call, and the first
\* call is for KeyA: goroutines and fingerprints are interchangeable)
Call(c, k) ==
    /\ ~crashed
    /\ UNCHANGED webVars
    /\ gi[c].pc \in {"idle", "done"}
    /\ IF c = 2 THEN gi[1].pc # "idle" ELSE TRUE
    /\ IF calls = 0 THEN k = KeyA ELSE TRUE
    /\ calls < MaxCalls
    /\ calls' = calls + 1
    /\ gi' = [gi EXCEPT ![c] = [GiIdle EXCEPT !.pc = "l109", !.n = calls + 1,
                                              !.key = k]]
    /\ UNCHANGED <<keyToInvoice, invoiceToKey, mutex, now, crashed, handedOut,
                   nextRef, reaper, rc, sent, ci>>

\* GI_Check that goes on to the POST whatever GetSatsToPay returns
GI_Check_PriceIgnored(c, priceOk) ==
    /\ ~crashed
    /\ UNCHANGED webVars
    /\ gi[c].pc = "l109"
    /\ mutex = Free
    /\ LET key == gi[c].key
           ok == key \in DOMAIN keyToInvoice
           inv == IF ok THEN keyToInvoice[key] ELSE ZeroInvoice
       IN IF ok /\ inv.Expiry > now
          THEN /\ gi' = [gi EXCEPT ![c].pc = "done", ![c].n = 0,
                                   ![c].ret = inv]
               /\ handedOut' = handedOut \cup {inv.PaymentRequest}
          ELSE IF FALSE
          THEN /\ gi' = [gi EXCEPT ![c].pc = "done", ![c].n = 0,
                                   ![c].ret = ZeroInvoice]
               /\ UNCHANGED handedOut
          ELSE /\ gi' = [gi EXCEPT ![c].pc = "l132", ![c].nowv = now,
                                   ![c].issued = TRUE]
               /\ UNCHANGED handedOut
    /\ mutex' = Free
    /\ UNCHANGED <<keyToInvoice, invoiceToKey, now, crashed, calls, nextRef,
                   reaper, rc, sent, ci>>

\* GI_Check with the expiry test turned round (inv.Expiry < now)
GI_Check_ExpiryInverted(c, priceOk) ==
    /\ ~crashed
    /\ UNCHANGED webVars
    /\ gi[c].pc = "l109"
    /\ mutex = Free
    /\ LET key == gi[c].key
           ok == key \in DOMAIN keyToInvoice
           inv == IF ok THEN keyToInvoice[key] ELSE ZeroInvoice
       IN IF ok /\ inv.Expiry < now
          THEN /\ gi' = [gi EXCEPT ![c].pc = "done", ![c].n = 0,
                                   ![c].ret = inv]
               /\ handedOut' = handedOut \cup {inv.PaymentRequest}
          ELSE IF ~priceOk
          THEN /\ gi' = [gi EXCEPT ![c].pc = "done", ![c].n = 0,
                                   ![c].ret = ZeroInvoice]
               /\ UNCHANGED handedOut
          ELSE /\ gi' = [gi EXCEPT ![c].pc = "l132", ![c].nowv = now,
                                   ![c].issued = TRUE]
               /\ UNCHANGED handedOut
    /\ mutex' = Free
    /\ UNCHANGED <<keyToInvoice, invoiceToKey, now, crashed, calls, nextRef,
                   reaper, rc, sent, ci>>

\* GI_Check that keeps the mutex locked while the invoice is requested
GI_Check_HoldsMutex(c, priceOk) ==
    /\ ~crashed
    /\ UNCHANGED webVars
    /\ gi[c].pc = "l109"
    /\ mutex = Free
    /\ LET key == gi[c].key
           ok == key \in DOMAIN keyToInvoice
           inv == IF ok THEN keyToInvoice[key] ELSE ZeroInvoice
       IN IF ok /\ inv.Expiry > now
          THEN /\ gi' = [gi EXCEPT ![c].pc = "done", ![c].n = 0,
                                   ![c].ret = inv]
               /\ handedOut' = handedOut \cup {inv.PaymentRequest}
               /\ mutex' = Free
          ELSE IF ~priceOk
          THEN /\ gi' = [gi EXCEPT ![c].pc = "done", ![c].n = 0,
                                   ![c].ret = ZeroInvoice]
               /\ UNCHANGED handedOut
               /\ mutex' = Free
          ELSE /\ gi' = [gi EXCEPT ![c].pc = "l132", ![c].nowv = now,
                                   ![c].issued = TRUE]
               /\ UNCHANGED handedOut
               /\ mutex' = <<"GetInvoice", c>>
    /\ UNCHANGED <<keyToInvoice, invoiceToKey, now, crashed, calls, nextRef,
                   reaper, rc, sent, ci>>

\* Lock(); inv, ok := keyToInvoice[key]; Unlock(); now := time.Now().Unix();
\* return the cached invoice if it is unexpired, else start computing the
\* amount (price.GetPrice may fail: return Invoice{}) and go on to the
\* POST /v1/invoices request                                   (line 109-132)
\* At "l132" the price lookup (an http.Get without timeout) and the POST are
\* in progress: any time can pass between line 113 and line 153.
GI_Check(c, priceOk) ==
    /\ ~crashed
    /\ UNCHANGED webVars
    /\ gi[c].pc = "l109"
    /\ mutex = Free
    /\ LET key == gi[c].key
           ok == key \in DOMAIN keyToInvoice
           inv == IF ok THEN keyToInvoice[key] ELSE ZeroInvoice
       IN IF ok /\ inv.Expiry > now
          THEN /\ gi' = [gi EXCEPT ![c].pc = "done", ![c].n = 0,
                                   ![c].ret = inv]
               /\ handedOut' = handedOut \cup {inv.PaymentRequest}
          ELSE IF ~priceOk
          THEN /\ gi' = [gi EXCEPT ![c].pc = "done", ![c].n = 0,
                                   ![c].ret = ZeroInvoice]
               /\ UNCHANGED handedOut
          ELSE /\ gi' = [gi EXCEPT ![c].pc = "l132", ![c].nowv = now,
                                   ![c].issued = TRUE]
               /\ UNCHANGED handedOut
    /\ mutex' = Free
    /\ UNCHANGED <<keyToInvoice, invoiceToKey, now, crashed, calls, nextRef,
                   reaper, rc, sent, ci>>

\* What the lnd node answers to POST /v1/invoices:
\*   "invoice"   a body with a new payment_request
\*   "errorBody" a JSON error object (no payment_request field): Unmarshal
\*               succeeds and leaves response.PaymentRequest == ""
\*   "fatal"     transport failure, unreadable or unparsable body: log.Fatalf
IssuerOutcomes == {"invoice", "errorBody", "fatal"}

\* httpClient.Do, ReadAll, json.Unmarshal                      (line 132-146)
GI_Issue(c, outcome) ==
    /\ ~crashed
    /\ UNCHANGED webVars
    /\ gi[c].pc = "l132"
    /\ \/ /\ outcome = "invoice"
          /\ gi' = [gi EXCEPT ![c].pc = "l153", ![c].resp = nextRef]
          /\ nextRef' = nextRef + 1
          /\ UNCHANGED <<keyToInvoice, invoiceToKey, mutex, now, crashed, calls,
                   handedOut, reaper, rc, sent, ci>>
       \/ /\ outcome = "errorBody"
          /\ gi' = [gi EXCEPT ![c].pc = "l153", ![c].resp = EmptyRef]
          /\ UNCHANGED <<keyToInvoice, invoiceToKey, mutex, now, crashed, calls,
                   handedOut, nextRef, reaper, rc, sent, ci>>
       \/ /\ outcome = "fatal"
          /\ Exited

\* GI_Store with the Expiry counted from the time of the store
GI_Store_ExpiryFromStore(c) ==
    /\ ~crashed
    /\ UNCHANGED webVars
    /\ gi[c].pc = "l153"
    /\ mutex = Free
    /\ LET newInvoice == Invoice(gi[c].resp, now + TTL)
       IN /\ keyToInvoice' = MapSet(keyToInvoice, gi[c].key, newInvoice)
          /\ invoiceToKey' = MapSet(invoiceToKey, gi[c].resp, gi[c].key)
          /\ gi' = [gi EXCEPT ![c].pc = "done", ![c].n = 0, ![c].nowv = 0,
                              ![c].resp = EmptyRef, ![c].ret = newInvoice]
    /\ mutex' = Free
    /\ reaper' = [reaper EXCEPT ![gi[c].n] =
                     [pc |-> "sleeping", ref |-> gi[c].resp,
                      wake |-> now + TTL, found |-> FALSE]]
    /\ handedOut' = handedOut \cup {gi[c].resp}
    /\ UNCHANGED <<now, crashed, calls, nextRef, rc, sent, ci>>

\* GI_Store without the write to invoiceToKey
GI_Store_NoReverse(c) ==
    /\ ~crashed
    /\ UNCHANGED webVars
    /\ gi[c].pc = "l153"
    /\ mutex = Free
    /\ LET newInvoice == Invoice(gi[c].resp, gi[c].nowv + TTL)
       IN /\ keyToInvoice' = MapSet(keyToInvoice, gi[c].key, newInvoice)
          /\ gi' = [gi EXCEPT ![c].pc = "done", ![c].n = 0, ![c].nowv = 0,
                              ![c].resp = EmptyRef, ![c].ret = newInvoice]
    /\ mutex' = Free
    /\ reaper' = [reaper EXCEPT ![gi[c].n] =
                     [pc |-> "sleeping", ref |-> gi[c].resp,
                      wake |-> now + TTL, found |-> FALSE]]
    /\ handedOut' = handedOut \cup {gi[c].resp}
    /\ UNCHANGED <<invoiceToKey, now, crashed, calls, nextRef, rc, sent, ci>>

\* build newInvoice, Lock(), store it in both maps, Unlock(), start the
\* reaper goroutine (its Sleep starts now), return newInvoice  (line 148-169)
GI_Store(c) ==
    /\ ~crashed
    /\ UNCHANGED webVars
    /\ gi[c].pc = "l153"
    /\ mutex = Free
    /\ LET newInvoice == Invoice(gi[c].resp, gi[c].nowv + TTL)
       IN /\ keyToInvoice' = MapSet(keyToInvoice, gi[c].key, newInvoice)
          /\ invoiceToKey' = MapSet(invoiceToKey, gi[c].resp, gi[c].key)
          /\ gi' = [gi EXCEPT ![c].pc = "done", ![c].n = 0, ![c].nowv = 0,
                              ![c].resp = EmptyRef, ![c].ret = newInvoice]
    /\ mutex' = Free
    /\ reaper' = [reaper EXCEPT ![gi[c].n] =
                     [pc |-> "sleeping", ref |-> gi[c].resp,
                      wake |-> now + TTL, found |-> FALSE]]
    /\ handedOut' = handedOut \cup {gi[c].resp}
    /\ UNCHANGED <<now, crashed, calls, nextRef, rc, sent, ci>>

\* ---------------------------------------------------------------- reaper
\* RP_Remove without Lock() and Unlock()
RP_Remove_NoLock(n) ==
    /\ ~crashed
    /\ UNCHANGED webVars
    /\ reaper[n].pc = "sleeping"
    /\ now >= reaper[n].wake
    /\ LET paymentRequest == reaper[n].ref
           ok == paymentRequest \in DOMAIN invoiceToKey
       IN IF ok
          THEN /\ invoiceToKey' = MapDelete(invoiceToKey, paymentRequest)
               /\ keyToInvoice' = MapDelete(keyToInvoice,
                                            invoiceToKey[paymentRequest])
               /\ reaper' = [reaper EXCEPT ![n].pc = "done",
                                           ![n].found = TRUE]
          ELSE /\ reaper' = [reaper EXCEPT ![n].pc = "done"]
               /\ UNCHANGED <<keyToInvoice, invoiceToKey>>
    /\ mutex' = mutex
    /\ UNCHANGED <<now, crashed, gi, calls, handedOut, nextRef, rc, sent, ci>>

\* RP_Remove without the time.Sleep
RP_Remove_NoSleep(n) ==
    /\ ~crashed
    /\ UNCHANGED webVars
    /\ reaper[n].pc = "sleeping"
    /\ mutex = Free
    /\ LET paymentRequest == reaper[n].ref
           ok == paymentRequest \in DOMAIN invoiceToKey
       IN IF ok
          THEN /\ invoiceToKey' = MapDelete(invoiceToKey, paymentRequest)
               /\ keyToInvoice' = MapDelete(keyToInvoice,
                                            invoiceToKey[paymentRequest])
               /\ reaper' = [reaper EXCEPT ![n].pc = "done",
                                           ![n].found = TRUE]
          ELSE /\ reaper' = [reaper EXCEPT ![n].pc = "done"]
               /\ UNCHANGED <<keyToInvoice, invoiceToKey>>
    /\ mutex' = Free
    /\ UNCHANGED <<now, crashed, gi, calls, handedOut, nextRef, rc, sent, ci>>

\* time.Sleep(300*time.Second) is over; Lock();
\* id, ok := invoiceToKey[paymentRequest]; if ok, delete both; Unlock()
\*                                                             (line 159-166)
RP_Remove(n) ==
    /\ ~crashed
    /\ UNCHANGED webVars
    /\ reaper[n].pc = "sleeping"
    /\ now >= reaper[n].wake
    /\ mutex = Free
    /\ LET paymentRequest == reaper[n].ref
           ok == paymentRequest \in DOMAIN invoiceToKey
       IN IF ok
          THEN /\ invoiceToKey' = MapDelete(invoiceToKey, paymentRequest)
               /\ keyToInvoice' = MapDelete(keyToInvoice,
                                            invoiceToKey[paymentRequest])
               /\ reaper' = [reaper EXCEPT ![n].pc = "done",
                                           ![n].found = TRUE]
          ELSE /\ reaper' = [reaper EXCEPT ![n].pc = "done"]
               /\ UNCHANGED <<keyToInvoice, invoiceToKey>>
    /\ mutex' = Free
    /\ UNCHANGED <<now, crashed, gi, calls, handedOut, nextRef, rc, sent, ci>>

\* ----------------------------------------------------- RunInvoiceChecker
\* What one reader.ReadBytes('\n') + json.Unmarshal can deliver:
\*   "settled"   a well-formed event, no error field, state SETTLED
\*   "open"      a well-formed event, no error field, another state
\*   "error"     a well-formed event with an error field (state SETTLED)
\*   "malformed" bytes that do not unmarshal (an empty line included)
MsgKinds == {"settled", "open", "error", "malformed"}
ReadErrs == {"nil", "EOF", "other"}

\* Payment requests a feed event can name: those handed to a payer, and the
\* empty string (an event without payment_request).
EventRefs == handedOut \cup {EmptyRef}

\* AfterEvent without the break at line 217
AfterEvent_NeverBreaks(eof) == "l187"

\* the jump target of `continue`, and of falling out of the if: line 216
AfterEvent(eof) == IF eof THEN "closed" ELSE "l187"

\* RC_Read with a break out of the loop when Unmarshal fails
RC_Read_MalformedBreaks(kind, ref, readErr) ==
    /\ ~crashed
    /\ UNCHANGED webVars
    /\ rc.pc = "l187"
    /\ rc.eof => kind = "malformed" /\ readErr = "EOF" /\ ref = EmptyRef
    /\ IF readErr = "other"
       THEN Exited
       ELSE /\ UNCHANGED <<keyToInvoice, invoiceToKey, mutex, now, crashed, gi, calls,
                   handedOut, nextRef, reaper, sent, ci>>
            /\ rc' = CASE kind = "malformed" ->
                            [RcStart EXCEPT !.pc = "closed",
                                            !.eof = (readErr = "EOF"),
                                            !.last = "malformed"]
                       [] kind \in {"error", "open"} ->
                            [RcStart EXCEPT !.eof = (readErr = "EOF"),
                                            !.last = kind, !.ref = ref]
                       [] kind = "settled" ->
                            [RcStart EXCEPT !.pc = "l203", !.ref = ref,
                                            !.eof = (readErr = "EOF"),
                                            !.live = (ref \in DOMAIN invoiceToKey),
                                            !.sent0 = Len(sent)]

\* RC_Read without the test of response.Error (line 195-198)
RC_Read_ErrorFieldIgnored(kind, ref, readErr) ==
    /\ ~crashed
    /\ UNCHANGED webVars
    /\ rc.pc = "l187"
    /\ rc.eof => kind = "malformed" /\ readErr = "EOF" /\ ref = EmptyRef
    /\ IF readErr = "other"
       THEN Exited
       ELSE /\ UNCHANGED <<keyToInvoice, invoiceToKey, mutex, now, crashed, gi, calls,
                   handedOut, nextRef, reaper, sent, ci>>
            /\ rc' = CASE kind = "malformed" ->
                            [RcStart EXCEPT !.pc = AfterEvent(readErr = "EOF"),
                                            !.eof = (readErr = "EOF"),
                                            !.last = "malformed"]
                       [] kind = "open" ->
                            [RcStart EXCEPT !.eof = (readErr = "EOF"),
                                            !.last = kind, !.ref = ref]
                       [] kind = "settled" ->
                            [RcStart EXCEPT !.pc = "l203", !.ref = ref,
                                            !.eof = (readErr = "EOF"),
                                            !.live = (ref \in DOMAIN invoiceToKey),
                                            !.sent0 = Len(sent)]
                       [] kind = "error" ->
                            [RcStart EXCEPT !.pc = "l203", !.ref = ref,
                                            !.eof = (readErr = "EOF"),
                                            !.live = (ref \in DOMAIN invoiceToKey),
                                            !.sent0 = Len(sent),
                                            !.last = kind]

\* RC_Read without the test of response.Result.State (line 200-202)
RC_Read_StateIgnored(kind, ref, readErr) ==
    /\ ~crashed
    /\ UNCHANGED webVars
    /\ rc.pc = "l187"
    /\ rc.eof => kind = "malformed" /\ readErr = "EOF" /\ ref = EmptyRef
    /\ IF readErr = "other"
       THEN Exited
       ELSE /\ UNCHANGED <<keyToInvoice, invoiceToKey, mutex, now, crashed, gi, calls,
                   handedOut, nextRef, reaper, sent, ci>>
            /\ rc' = CASE kind = "malformed" ->
                            [RcStart EXCEPT !.pc = AfterEvent(readErr = "EOF"),
                                            !.eof = (readErr = "EOF"),
                                            !.last = "malformed"]
                       [] kind = "error" ->
                            [RcStart EXCEPT !.eof = (readErr = "EOF"),
                                            !.last = kind, !.ref = ref]
                       [] kind = "settled" ->
                            [RcStart EXCEPT !.pc = "l203", !.ref = ref,
                                            !.eof = (readErr = "EOF"),
                                            !.live = (ref \in DOMAIN invoiceToKey),
                                            !.sent0 = Len(sent)]
                       [] kind = "open" ->
                            [RcStart EXCEPT !.pc = "l203", !.ref = ref,
                                            !.eof = (readErr = "EOF"),
                                            !.live = (ref \in DOMAIN invoiceToKey),
                                            !.sent0 = Len(sent),
                                            !.last = kind]

\* RC_Read that takes every read error for the end of the stream
RC_Read_ErrorAsEOF(kind, ref, readErr) ==
    /\ ~crashed
    /\ UNCHANGED webVars
    /\ rc.pc = "l187"
    /\ rc.eof => kind = "malformed" /\ readErr = "EOF" /\ ref = EmptyRef
    /\ IF FALSE
       THEN Exited
       ELSE /\ UNCHANGED <<keyToInvoice, invoiceToKey, mutex, now, crashed, gi, calls,
                   handedOut, nextRef, reaper, sent, ci>>
            /\ rc' = CASE kind = "malformed" ->
                            [RcStart EXCEPT !.pc = AfterEvent(readErr # "nil"),
                                            !.eof = (readErr # "nil"),
                                            !.last = "malformed"]
                       [] kind \in {"error", "open"} ->
                            [RcStart EXCEPT !.eof = (readErr # "nil"),
                                            !.last = kind, !.ref = ref]
                       [] kind = "settled" ->
                            [RcStart EXCEPT !.pc = "l203", !.ref = ref,
                                            !.eof = (readErr # "nil"),
                                            !.live = (ref \in DOMAIN invoiceToKey),
                                            !.sent0 = Len(sent)]

\* reader.ReadBytes, Unmarshal, error/state filter             (line 187-202)
\* Once the stream has ended every further read returns no bytes and EOF.
RC_Read(kind, ref, readErr) ==
    /\ ~crashed
    /\ UNCHANGED webVars
    /\ rc.pc = "l187"
    /\ rc.eof => kind = "malformed" /\ readErr = "EOF" /\ ref = EmptyRef
    /\ IF readErr = "other"
       THEN Exited
       ELSE /\ UNCHANGED <<keyToInvoice, invoiceToKey, mutex, now, crashed, gi, calls,
                   handedOut, nextRef, reaper, sent, ci>>
            /\ rc' = CASE kind = "malformed" ->
                            [RcStart EXCEPT !.pc = AfterEvent(readErr = "EOF"),
                                            !.eof = (readErr = "EOF"),
                                            !.last = "malformed"]
                       [] kind \in {"error", "open"} ->
                            [RcStart EXCEPT !.eof = (readErr = "EOF"),
                                            !.last = kind, !.ref = ref]
                       [] kind = "settled" ->
                            [RcStart EXCEPT !.pc = "l203", !.ref = ref,
                                            !.eof = (readErr = "EOF"),
                                            !.live = (ref \in DOMAIN invoiceToKey),
                                            !.sent0 = Len(sent)]

\* RC_Lookup that treats an expired record as not found
RC_Lookup_ChecksExpiry ==
    /\ ~crashed
    /\ UNCHANGED webVars
    /\ rc.pc = "l203"
    /\ mutex = Free
    /\ IF /\ rc.ref \in DOMAIN invoiceToKey
          /\ invoiceToKey[rc.ref] \in DOMAIN keyToInvoice
          /\ keyToInvoice[invoiceToKey[rc.ref]].Expiry > now
       THEN /\ rc' = [rc EXCEPT !.pc = "l206", !.key = invoiceToKey[rc.ref]]
            /\ sent' = Append(sent, [ref |-> rc.ref,
                                     msg |-> Message(invoiceToKey[rc.ref])])
            /\ mutex' = ByConsumer
       ELSE /\ rc' = [RcStart EXCEPT !.pc = AfterEvent(rc.eof), !.eof = rc.eof]
            /\ mutex' = Free
            /\ UNCHANGED sent
    /\ UNCHANGED <<keyToInvoice, invoiceToKey, now, crashed, gi, calls,
                   handedOut, nextRef, reaper, ci>>

\* Lock(); key, ok := invoiceToKey[ref]; if ok, call sms.Send(key.Message())
\* with the mutex held; else Unlock() and go on to line 216
\*                                                  (line 203-206, 212-218)
RC_Lookup ==
    /\ ~crashed
    /\ UNCHANGED webVars
    /\ rc.pc = "l203"
    /\ mutex = Free
    /\ IF rc.ref \in DOMAIN invoiceToKey
       THEN /\ rc' = [rc EXCEPT !.pc = "l206", !.key = invoiceToKey[rc.ref]]
            /\ sent' = Append(sent, [ref |-> rc.ref,
                                     msg |-> Message(invoiceToKey[rc.ref])])
            /\ mutex' = ByConsumer
       ELSE /\ rc' = [RcStart EXCEPT !.pc = AfterEvent(rc.eof), !.eof = rc.eof]
            /\ mutex' = Free
            /\ UNCHANGED sent
    /\ UNCHANGED <<keyToInvoice, invoiceToKey, now, crashed, gi, calls,
                   handedOut, nextRef, reaper, ci>>

\* RC_SendDone without the delete of line 211
RC_SendDone_KeepsForward(smsOk) ==
    /\ ~crashed
    /\ UNCHANGED webVars
    /\ rc.pc = "l206"
    /\ invoiceToKey' = MapDelete(invoiceToKey, rc.ref)
    /\ keyToInvoice' = keyToInvoice
    /\ mutex' = Free
    /\ rc' = [RcStart EXCEPT !.pc = AfterEvent(rc.eof), !.eof = rc.eof,
                             !.last = IF smsOk THEN "none" ELSE "smsErr"]
    /\ UNCHANGED <<now, crashed, gi, calls, handedOut, nextRef, reaper, sent,
                   ci>>

\* RC_SendDone without the Unlock of line 213
RC_SendDone_NoUnlock(smsOk) ==
    /\ ~crashed
    /\ UNCHANGED webVars
    /\ rc.pc = "l206"
    /\ invoiceToKey' = MapDelete(invoiceToKey, rc.ref)
    /\ keyToInvoice' = MapDelete(keyToInvoice, rc.key)
    /\ mutex' = mutex
    /\ rc' = [RcStart EXCEPT !.pc = AfterEvent(rc.eof), !.eof = rc.eof,
                             !.last = IF smsOk THEN "none" ELSE "smsErr"]
    /\ UNCHANGED <<now, crashed, gi, calls, handedOut, nextRef, reaper, sent,
                   ci>>

\* RC_SendDone that, when sms.Send fails, keeps the entries and handles the
\* same event again
RC_SendDone_RetriesOnError(smsOk) ==
    /\ ~crashed
    /\ UNCHANGED webVars
    /\ rc.pc = "l206"
    /\ IF smsOk
       THEN /\ invoiceToKey' = MapDelete(invoiceToKey, rc.ref)
            /\ keyToInvoice' = MapDelete(keyToInvoice, rc.key)
            /\ rc' = [RcStart EXCEPT !.pc = AfterEvent(rc.eof), !.eof = rc.eof]
       ELSE /\ UNCHANGED <<invoiceToKey, keyToInvoice>>
            /\ rc' = [rc EXCEPT !.pc = "l203", !.last = "smsErr"]
    /\ mutex' = Free
    /\ UNCHANGED <<now, crashed, gi, calls, handedOut, nextRef, reaper, sent,
                   ci>>

\* RC_SendDone without delete(h.invoices.invoiceToKey, ...)
RC_SendDone_KeepsReverse(smsOk) ==
    /\ ~crashed
    /\ UNCHANGED webVars
    /\ rc.pc = "l206"
    /\ keyToInvoice' = MapDelete(keyToInvoice, rc.key)
    /\ mutex' = Free
    /\ rc' = [RcStart EXCEPT !.pc = AfterEvent(rc.eof), !.eof = rc.eof,
                             !.last = IF smsOk THEN "none" ELSE "smsErr"]
    /\ UNCHANGED <<invoiceToKey, now, crashed, gi, calls, handedOut, nextRef,
                   reaper, sent, ci>>

\* sms.Send returns (its error is only logged); delete both; Unlock()
\*                                                             (line 206-218)
RC_SendDone(smsOk) ==
    /\ ~crashed
    /\ UNCHANGED webVars
    /\ rc.pc = "l206"
    /\ invoiceToKey' = MapDelete(invoiceToKey, rc.ref)
    /\ keyToInvoice' = MapDelete(keyToInvoice, rc.key)
    /\ mutex' = Free
    /\ rc' = [RcStart EXCEPT !.pc = AfterEvent(rc.eof), !.eof = rc.eof,
                             !.last = IF smsOk THEN "none" ELSE "smsErr"]
    /\ UNCHANGED <<now, crashed, gi, calls, handedOut, nextRef, reaper, sent,
                   ci>>

\* ---------------------------------------------------------- CheckInvoice
\* _, ok := invoiceToKey[paymentRequest]; return !ok           (line 226-228)
CheckInvoice(paymentRequest) == paymentRequest \notin DOMAIN invoiceToKey

\* CheckHandler calls CheckInvoice(paymentRequest)                  (line 222)
CI_Call ==
    /\ ~crashed
    /\ UNCHANGED webVars
    /\ ci.pc = "idle"
    /\ ci' = [pc |-> "l223"]
    /\ UNCHANGED <<keyToInvoice, invoiceToKey, mutex, now, crashed, gi, calls,
                   handedOut, nextRef, reaper, rc, sent>>

\* Lock(); read the reverse map, return CheckInvoice(paymentRequest);
\* deferred Unlock()                                           (line 223-228)
CI_Return ==
    /\ ~crashed
    /\ UNCHANGED webVars
    /\ ci.pc = "l223"
    /\ mutex = Free
    /\ ci' = CiIdle
    /\ mutex' = Free
    /\ UNCHANGED <<keyToInvoice, invoiceToKey, now, crashed, gi, calls,
                   handedOut, nextRef, reaper, rc, sent>>

\* ----------------------------------------------------------------- clock
\* Time passes.
Tick(d) ==
    /\ ~crashed
    /\ UNCHANGED webVars
    /\ now < MaxTicks * TTL
    /\ now' = now + d
    /\ UNCHANGED <<keyToInvoice, invoiceToKey, mutex, crashed, gi, calls,
                   handedOut, nextRef, reaper, rc, sent, ci>>

\* ---------------------------------------------------------- specification
Next ==
    \/ \E c \in Callers, k \in Keys : Call(c, k)
    \/ \E c \in Callers, priceOk \in BOOLEAN : GI_Check(c, priceOk)
    \/ \E c \in Callers, o \in IssuerOutcomes : GI_Issue(c, o)
    \/ \E c \in Callers : GI_Store(c)
    \/ \E n \in CallIds : RP_Remove(n)
    \/ \E kind \in MsgKinds, ref \in EventRefs, e \in ReadErrs :
           RC_Read(kind, ref, e)
    \/ RC_Lookup
    \/ \E smsOk \in BOOLEAN : RC_SendDone(smsOk)
    \/ \E d \in TickSizes : Tick(d)

Spec == Init /\ [][Next]_vars

\* The same with a goroutine that serves /check requests.
NextCheck == Next \/ CI_Call \/ CI_Return

SpecCheck == Init /\ [][NextCheck]_vars

\* ------------------------------------------------ fair scheduling
\* A request handler calls GetInvoice, MaxCallsLive times at most.
LiveCall(c, k) == calls < MaxCallsLive /\ Call(c, k)

NextLive ==
    \/ \E c \in Callers, k \in Keys : LiveCall(c, k)
    \/ \E c \in Callers, priceOk \in BOOLEAN : GI_Check(c, priceOk)
    \/ \E c \in Callers, o \in IssuerOutcomes : GI_Issue(c, o)
    \/ \E c \in Callers : GI_Store(c)
    \/ \E n \in CallIds : RP_Remove(n)
    \/ \E kind \in MsgKinds, ref \in EventRefs, e \in ReadErrs :
           RC_Read(kind, ref, e)
    \/ RC_Lookup
    \/ \E smsOk \in BOOLEAN : RC_SendDone(smsOk)
    \/ \E d \in TickSizes : Tick(d)

\* The steps the consumer goroutine takes without waiting for the feed: a
\* read on a stream that has ended returns at once, the mutex is handed to
\* it when free, and sms.Send returns.
ConsumerStep ==
    \/ rc.eof /\ \E kind \in MsgKinds, ref \in EventRefs, e \in ReadErrs :
                     RC_Read(kind, ref, e)
    \/ RC_Lookup
    \/ \E smsOk \in BOOLEAN : RC_SendDone(smsOk)

\* The program with at most MaxCallsLive GetInvoice calls, and a goroutine
\* scheduler that lets a runnable consumer run.
SpecLive == Init /\ [][NextLive]_vars /\ WF_vars(ConsumerStep)

\* The clock also runs on for as long as a reaper is asleep.
FairTick(d) ==
    /\ ~crashed
    /\ UNCHANGED webVars
    /\ \/ now < MaxTicks * TTL
       \/ \E n \in CallIds : reaper[n].pc = "sleeping" /\ now < reaper[n].wake
    /\ now' = now + d
    /\ UNCHANGED <<keyToInvoice, invoiceToKey, mutex, crashed, gi, calls,
                   handedOut, nextRef, reaper, rc, sent, ci>>

NextFair ==
    \/ \E c \in Callers, k \in Keys : Call(c, k)
    \/ \E c \in Callers, priceOk \in BOOLEAN : GI_Check(c, priceOk)
    \/ \E c \in Callers, o \in IssuerOutcomes : GI_Issue(c, o)
    \/ \E c \in Callers : GI_Store(c)
    \/ \E n \in CallIds : RP_Remove(n)
    \/ \E kind \in MsgKinds, ref \in EventRefs, e \in ReadErrs :
           RC_Read(kind, ref, e)
    \/ RC_Lookup
    \/ \E smsOk \in BOOLEAN : RC_SendDone(smsOk)
    \/ \E d \in TickSizes : FairTick(d)

\* The program with at most MaxCalls GetInvoice calls under a fair
\* scheduler: time passes, a runnable consumer runs (sms.Send returns), and
\* a reaper whose sleep is over gets the mutex when it is free.
SpecFair ==
    /\ Init /\ [][NextFair]_vars
    /\ WF_vars(ConsumerStep)
    /\ WF_vars(\E d \in TickSizes : FairTick(d))
    /\ \A n \in CallIds : WF_vars(RP_Remove(n))

\* The fairly scheduled program with a goroutine that serves /check
\* requests.
NextCheckLive == NextLive \/ CI_Call \/ CI_Return

SpecCheckLive == Init /\ [][NextCheckLive]_vars /\ WF_vars(ConsumerStep)

\* -------------------------------------------------- the handlers server
handlerVars == <<keyToInvoice, invoiceToKey, mutex, now, crashed, gi, calls,
                 handedOut, nextRef, reaper, rc, sent, ci>>

\* InitHandler(lndAddress, macaroonPath): log.Fatalf if the macaroon file
\* cannot be opened; else set InvoiceHandler to a Handler with both maps made
\* and start RunInvoiceChecker.                      (handler.go line 75-103)
InitHandler(macaroonOk) ==
    /\ boot.main # "exited"
    /\ IF macaroonOk
       THEN boot' = [boot EXCEPT !.InvoiceHandler = "set", !.consumer = TRUE]
       ELSE boot' = [boot EXCEPT !.main = "exited"]
    /\ UNCHANGED <<handlerVars, pay, fee>>

\* main: flags, log file, templates (log.Fatalf or the panic of
\* template.Must when one fails), then the three http.HandleFunc calls, the
\* file server and http.ListenAndServe.  The call of lnd.InitHandler at line
\* 40 is a comment: main does not make it.                  (part_001 13-50)
Main_Start(ok) ==
    /\ boot.main = "l13"
    /\ boot' = [boot EXCEPT !.main = IF ok THEN "l49" ELSE "exited"]
    /\ UNCHANGED <<handlerVars, pay, fee>>

RequestMethods == {"GET", "POST"}
\* the paymentRequest query parameter: absent, present and empty, or a
\* payment request
RequestParams == {"missing", "empty", "ref"}

\* The server hands a /check request to CheckHandler in a goroutine of
\* its own.                                              (part_001 line 44)
CH_Request(g, method, param) ==
    /\ boot.main = "l49"
    /\ boot.req[g].pc = "idle"
    /\ boot.requests < MaxRequests
    /\ boot' = [boot EXCEPT !.req[g] = [pc |-> "l90", method |-> method,
                                        param |-> param, last |-> "none"],
                            !.requests = @ + 1]
    /\ UNCHANGED <<handlerVars, pay, fee>>

\* if r.Method != "GET" -> 404; if the parameter is missing or empty -> 404
\*                                                      (part_000 line 90-100)
CH_Validate(g) ==
    /\ boot.main = "l49"
    /\ boot.req[g].pc = "l90"
    /\ IF boot.req[g].method # "GET" \/ boot.req[g].param # "ref"
       THEN boot' = [boot EXCEPT !.req[g] = [ReqIdle EXCEPT !.last = "404"]]
       ELSE boot' = [boot EXCEPT !.req[g].pc = "l104"]
    /\ UNCHANGED <<handlerVars, pay, fee>>

\* response["isPaid"] = lnd.InvoiceHandler.CheckInvoice(data[0]): with
\* InvoiceHandler nil, h.invoices.Lock() dereferences a nil pointer and
\* panics; net/http recovers, logs the panic and closes the connection
\* without a response.                                 (part_000 line 104-110)
CH_CheckInvoice(g) ==
    /\ boot.main = "l49"
    /\ boot.req[g].pc = "l104"
    /\ IF boot.InvoiceHandler = "nil"
       THEN boot' = [boot EXCEPT
                        !.req[g] = [ReqIdle EXCEPT !.last = "panic"],
                        !.panics = @ + 1]
       ELSE boot' = [boot EXCEPT
                        !.req[g] = [ReqIdle EXCEPT !.last = "answered"]]
    /\ UNCHANGED <<handlerVars, pay, fee>>

NextBoot ==
    \/ \E ok \in BOOLEAN : Main_Start(ok)
    \/ \E g \in Servers, m \in RequestMethods, q \in RequestParams :
           CH_Request(g, m, q)
    \/ \E g \in Servers : CH_Validate(g)
    \/ \E g \in Servers : CH_CheckInvoice(g)

\* The handlers program as main starts it.
SpecBoot == Init /\ [][NextBoot]_vars

\* ---------------------------------------------------- the LNbits server
\* The payer pays the invoice with payment hash h: from then on LNbits
\* answers {"paid": true} for it.                      (main.go line 53-56)
LN_Pay(h) ==
    /\ h \notin pay.paid
    /\ pay' = [pay EXCEPT !.paid = @ \cup {h}]
    /\ UNCHANGED <<handlerVars, boot, fee>>

\* query parameters of a poll as the page, or anyone, sends them
Plates == {"", "XY123"}
ZoneParams == {"", "C1", "Donate"}
HoursParams == {"", "2"}

\* GET /check-payment/:payment_hash?plate=&zone=&hours=&amount=
\* checkLNBitsPayment fails: 500.  Not paid: {"paid": false}.  Paid and
\* zone Donate: {"paid": true, "donate": true}.  Paid otherwise: when plate,
\* zone and hours are all non-empty call sendToParkingServer (its error is
\* only logged), then {"paid": true, "sms_sent_at": ...}.  The handler keeps
\* nothing from one poll to the next.                  (main.go line 189-229)
handleCheckPayment(h, plate, zone, hours, checkOk) ==
    /\ pay.polls < MaxPolls
    /\ LET paid == h \in pay.paid
           send == /\ checkOk /\ paid /\ zone # "Donate"
                   /\ plate # "" /\ zone # "" /\ hours # ""
           resp == IF ~checkOk THEN "error500"
                   ELSE IF ~paid THEN "unpaid"
                   ELSE IF zone = "Donate" THEN "donate"
                   ELSE "paid"
       IN pay' = [pay EXCEPT
                     !.polls = @ + 1,
                     !.sends[h] = IF send THEN @ + 1 ELSE @,
                     !.last = [hash |-> h, plate |-> plate, zone |-> zone,
                               hours |-> hours, resp |-> resp]]
    /\ UNCHANGED <<handlerVars, boot, fee>>

NextPay ==
    \/ \E h \in Hashes : LN_Pay(h)
    \/ \E h \in Hashes, plate \in Plates, zone \in ZoneParams,
          hours \in HoursParams, checkOk \in BOOLEAN :
           handleCheckPayment(h, plate, zone, hours, checkOk)

\* The LNbits server answering polls while payments come in.
SpecPay == Init /\ [][NextPay]_vars

\* ------------------------------------------------------- Zone.GetParkingFee
\* Prices per hour, in tenths of a euro (1.7, 1.0, 0.7)    (zone.go line 5-9)
zone1 == 17
zone2 == 10
zone3 == 7

\* Zone{Name, Price, MaxTime}; six of the entries of var Zones, two of each
\* price class.                                           (zone.go line 21-93)
ZoneNames == {"C1", "C4", "B1", "Pr", "B2", "J1"}
Zones ==
    [name \in ZoneNames |->
        CASE name = "C1" -> [Name |-> "C1", Price |-> zone1, MaxTime |-> 4]
          [] name = "C4" -> [Name |-> "C4", Price |-> zone1, MaxTime |-> 2]
          [] name = "B1" -> [Name |-> "B1", Price |-> zone2, MaxTime |-> 6]
          [] name = "Pr" -> [Name |-> "Pr", Price |-> zone2, MaxTime |-> 6]
          [] name = "B2" -> [Name |-> "B2", Price |-> zone3, MaxTime |-> 10]
          [] name = "J1" -> [Name |-> "J1", Price |-> zone3, MaxTime |-> 10]]

\* hours as the callers pass it: strconv.ParseInt accepts any int64, zero
\* and negative numbers included (part_000 line 55)
HoursRange == (0 - 2) .. MaxHours

\* math.Min
Min(x, y) == IF x < y THEN x ELSE y

\* float64(hours): exact for every int64 of magnitude up to 2^53, which
\* covers HoursRange
Float64(hours) == hours

\* GetParkingFee without math.Min
GetParkingFee_NoCap(z, hours) == Float64(hours) * z.Price

\* func (z Zone) GetParkingFee(hours int64) float64, in tenths of a euro.
\* The product of a whole number of hours and a price in tenths is computed
\* here exactly; the float64 product rounds it to the nearest double, which
\* keeps order and equality of the results.                (zone.go line 17-19)
GetParkingFee(z, hours) == Min(Float64(hours), z.MaxTime) * z.Price

\* A caller computes the fee of a request.
\*                                  (main.go line 152-153, handler.go line 53)
Fee_Call(name, hours) ==
    /\ fee' = [zone |-> name, hours |-> hours,
               out |-> GetParkingFee(Zones[name], hours), called |-> TRUE]
    /\ UNCHANGED <<handlerVars, boot, pay>>

NextFee == \E name \in ZoneNames, hours \in HoursRange : Fee_Call(name, hours)

\* GetParkingFee applied to every zone and number of hours.
SpecFee == Init /\ [][NextFee]_vars


\* ================================================================ claims
\* Positions of a GetInvoice call between sending the POST request and
\* having stored the answer: an issuance in flight.
Issuing == {"l132", "l153"}

\* the GetInvoice calls for fingerprint f the goroutines are in or have ended
CallsFor(f) == {c \in Callers : gi[c].pc # "idle" /\ gi[c].key = f}

\* a notification for fingerprint f has been handed to sms.Send
NotifiedFor(f) == \E i \in 1 .. Len(sent) : sent[i].msg = Message(f)

\* No record of f has expired (every Expiry is at least TTL) and no
\* settlement of f has been processed.
Undisturbed(f) == now < TTL /\ ~NotifiedFor(f)

\* C1: as long as no expiry or settlement of a fingerprint f has happened,
\* the issuer has been invoked at most once for f, at most one issuance for
\* f is in flight, and all GetInvoice calls for f that returned an invoice
\* returned the same payment request.
C1_OneIssuancePerFingerprint ==
    \A f \in Keys :
        Undisturbed(f) =>
            /\ Cardinality({c \in CallsFor(f) : gi[c].issued}) <= 1
            /\ Cardinality({c \in CallsFor(f) : gi[c].pc \in Issuing}) <= 1
            /\ \A c1, c2 \in CallsFor(f) :
                   (/\ gi[c1].pc = "done" /\ gi[c1].ret # ZeroInvoice
                    /\ gi[c2].pc = "done" /\ gi[c2].ret # ZeroInvoice)
                   => gi[c1].ret.PaymentRequest = gi[c2].ret.PaymentRequest


\* The consumer step that ends the processing of a settled event: the
\* lookup that finds nothing, or the return of sms.Send.
EventDone == rc.pc \in {"l203", "l206"} /\ rc'.pc \in {"l187", "closed"} /\ ~crashed'

\* payment request r is in neither map
AbsentFromBoth(r, fwd, rev) ==
    /\ r \notin DOMAIN rev
    /\ \A k \in DOMAIN fwd : fwd[k].PaymentRequest # r

C3_AtMostOneSendPerReference ==
    \A i, j \in 1 .. Len(sent) : sent[i].ref = sent[j].ref => i = j

\* C4: whenever the mutex is free the two maps mirror each other.
C4_MapsMirror ==
    mutex = Free =>
        \A f \in Keys, r \in Refs :
            (f \in DOMAIN keyToInvoice /\ keyToInvoice[f].PaymentRequest = r)
            <=> (r \in DOMAIN invoiceToKey /\ invoiceToKey[r] = f)


\* The step of caller c that runs lines 109-132 of its GetInvoice call.
CheckStep(c) == gi[c].pc = "l109" /\ gi'[c].pc # "l109" /\ ~crashed'

\* The step of caller c that runs lines 148-169 of its GetInvoice call.
StoreStep(c) == gi[c].pc = "l153" /\ gi'[c].pc # "l153" /\ ~crashed'

\* the forward map holds an unexpired record for fingerprint k
Unexpired(k) == k \in DOMAIN keyToInvoice /\ keyToInvoice[k].Expiry > now

\* C5: a GetInvoice call that finds an unexpired record for its fingerprint
\* returns that record, makes no issuer call, starts no reaper and leaves
\* both maps as they are.
C5_CacheHitReturnsStored ==
    [][\A c \in Callers :
           (CheckStep(c) /\ Unexpired(gi[c].key)) =>
               /\ gi'[c].pc = "done"
               /\ gi'[c].ret = keyToInvoice[gi[c].key]
               /\ ~gi'[c].issued
               /\ nextRef' = nextRef
               /\ reaper' = reaper
               /\ keyToInvoice' = keyToInvoice
               /\ invoiceToKey' = invoiceToKey]_vars

\* C5 witness: a call has returned the stored record without issuing.
C5_Witness ==
    \E c \in Callers :
        /\ gi[c].pc = "done" /\ ~gi[c].issued /\ gi[c].ret # ZeroInvoice
        /\ Unexpired(gi[c].key)
        /\ keyToInvoice[gi[c].key] = gi[c].ret

\* C6: a GetInvoice call that finds no unexpired record (and can compute
\* the amount) invokes the issuer; when the issuer has answered with a
\* payment request r the call stores the record (r, Expiry) under its
\* fingerprint in the forward map and r in the reverse map, touching no other
\* entry, starts one reaper for r that sleeps for the validity window, and
\* returns the record it stored.
C6_MissIssuesAndStores ==
    [][\A c \in Callers :
           /\ (CheckStep(c) /\ ~Unexpired(gi[c].key)) =>
                  \/ gi'[c].pc = "l132" /\ gi'[c].issued /\ ~gi[c].issued
                  \/ gi'[c].pc = "done" /\ gi'[c].ret = ZeroInvoice
           /\ (StoreStep(c) /\ gi[c].resp # EmptyRef) =>
                  LET k == gi[c].key
                      r == gi[c].resp
                      n == gi[c].n
                  IN /\ k \in DOMAIN keyToInvoice'
                     /\ keyToInvoice'[k].PaymentRequest = r
                     /\ keyToInvoice'[k].Expiry = gi[c].nowv + TTL
                     /\ r \in DOMAIN invoiceToKey'
                     /\ invoiceToKey'[r] = k
                     /\ \A f \in Keys \ {k} :
                            /\ f \in DOMAIN keyToInvoice' <=> f \in DOMAIN keyToInvoice
                            /\ f \in DOMAIN keyToInvoice =>
                                   keyToInvoice'[f] = keyToInvoice[f]
                     /\ \A q \in Refs \ {r} :
                            /\ q \in DOMAIN invoiceToKey' <=> q \in DOMAIN invoiceToKey
                            /\ q \in DOMAIN invoiceToKey =>
                                   invoiceToKey'[q] = invoiceToKey[q]
                     /\ reaper[n].pc = "none"
                     /\ reaper'[n] = [pc |-> "sleeping", ref |-> r,
                                      wake |-> now + TTL, found |-> FALSE]
                     /\ \A m \in CallIds \ {n} : reaper'[m] = reaper[m]
                     /\ gi'[c].pc = "done"
                     /\ gi'[c].ret = keyToInvoice'[k]]_vars

\* C6 witness: a call has issued, stored and returned a record whose reaper
\* is asleep.
C6_Witness ==
    \E c \in Callers :
        /\ gi[c].pc = "done" /\ gi[c].issued
        /\ gi[c].ret.PaymentRequest # EmptyRef
        /\ gi[c].key \in DOMAIN keyToInvoice
        /\ keyToInvoice[gi[c].key] = gi[c].ret
        /\ gi[c].ret.PaymentRequest \in DOMAIN invoiceToKey
        /\ invoiceToKey[gi[c].ret.PaymentRequest] = gi[c].key
        /\ \E n \in CallIds : /\ reaper[n].pc = "sleeping"
                              /\ reaper[n].ref = gi[c].ret.PaymentRequest

\* C7: no record comes from a failed issuer call: the issuer's successful
\* answers all carry a payment request, so neither map ever holds the empty
\* payment request.
C7_IssuerFailureStoresNothing ==
    AbsentFromBoth(EmptyRef, keyToInvoice, invoiceToKey)

\* Payment requests whose entry a reaper or the consumer has found and
\* removed (the consumer removes on the return of sms.Send).
Resolved ==
    {reaper[n].ref : n \in {m \in CallIds : reaper[m].found}}
    \cup {sent[i].ref : i \in 1 .. (Len(sent) - (IF rc.pc = "l206" THEN 1 ELSE 0))}

\* C8: once the entry of a payment request has been found and removed, the
\* payment request is not in the reverse map, so that every later lookup by
\* the reaper or the consumer yields not found.
C8_RemovedStaysRemoved ==
    \A r \in Resolved : r \notin DOMAIN invoiceToKey

\* C9: of the settlement-triggered and the TTL-triggered removal of one
\* payment request at most one finds the entry: no payment request has both
\* been found by a reaper and been notified.
C9_OnlyOneRemovalFinds ==
    \A n \in CallIds :
        reaper[n].found => \A i \in 1 .. Len(sent) : sent[i].ref # reaper[n].ref


\* every reaper whose sleep is over has run
NoReaperOverdue ==
    \A n \in CallIds : reaper[n].pc = "sleeping" => now < reaper[n].wake

\* C10: with the reapers on time, a CheckInvoice call made once the Expiry
\* of a stored record has been reached reports its payment request as not
\* pending; and a payment request whose entry a reaper has removed is not
\* pending again.
C10_ExpiredIsNotLive ==
    (mutex = Free /\ NoReaperOverdue) =>
        /\ \A f \in DOMAIN keyToInvoice :
               keyToInvoice[f].Expiry <= now =>
                   CheckInvoice(keyToInvoice[f].PaymentRequest)
        /\ \A n \in CallIds :
               reaper[n].found => CheckInvoice(reaper[n].ref)

\* a settled event for payment request r has been processed
Settled(r) == \E i \in 1 .. Len(sent) : sent[i].ref = r

\* payment request r was created by the lnd node, no settled event for it
\* has been processed, and the record that holds it has not reached its Expiry
Pending(r) ==
    /\ r \in 1 .. (nextRef - 1)
    /\ ~Settled(r)
    /\ \E f \in DOMAIN keyToInvoice : /\ keyToInvoice[f].PaymentRequest = r
                                      /\ keyToInvoice[f].Expiry > now

\* C11: with the reapers on time, for every payment request the lnd node can
\* have created, CheckInvoice reports it as pending (returns false) exactly
\* when it was issued and its record is neither settled nor past its Expiry.
C11_LiveIffPending ==
    (mutex = Free /\ NoReaperOverdue) =>
        \A r \in Refs \ {EmptyRef} : ~CheckInvoice(r) <=> Pending(r)

\* C12: a payment request in the reverse map stays bound to the fingerprint
\* it was stored for; a settled event whose payment request r the consumer
\* finds there causes exactly one sms.Send, with the Message of that
\* fingerprint; and once the event is processed CheckInvoice never reports r
\* as pending again.
C12_SettledNotifiesFingerprint ==
    [][/\ \A r \in (DOMAIN invoiceToKey) \cap (DOMAIN invoiceToKey') :
              invoiceToKey'[r] = invoiceToKey[r]
       /\ (EventDone /\ rc.ref \in DOMAIN invoiceToKey) =>
              /\ Len(sent') = rc.sent0 + 1
              /\ sent'[Len(sent')] = [ref |-> rc.ref,
                                      msg |-> Message(invoiceToKey[rc.ref])]
       /\ mutex' = Free =>
              \A i \in 1 .. Len(sent') :
                  sent'[i].ref \notin DOMAIN invoiceToKey']_vars

\* The GetInvoice call of caller d, for another fingerprint, overlapped the
\* call of caller c that is about to store: d sampled its time (line 113)
\* after c did and has already stored and returned its record, which is
\* still in both maps.
StoredDuring(d, c) ==
    /\ d # c
    /\ gi[c].pc = "l153"
    /\ gi[d].pc = "done" /\ gi[d].issued
    /\ gi[d].key # gi[c].key
    /\ gi[d].ret.Expiry > gi[c].nowv + TTL
    /\ gi[d].key \in DOMAIN keyToInvoice
    /\ keyToInvoice[gi[d].key] = gi[d].ret
    /\ gi[d].ret.PaymentRequest \in DOMAIN invoiceToKey
    /\ invoiceToKey[gi[d].ret.PaymentRequest] = gi[d].key

\* C13: when two GetInvoice calls for different fingerprints overlap, the
\* store of the one that stores last leaves both records in place: both
\* forward entries and both reverse entries are present, with different
\* payment requests, and the record stored first is unchanged.
C13_ConcurrentStoresKeepBoth ==
    [][\A c, d \in Callers :
           (StoreStep(c) /\ StoredDuring(d, c)) =>
               LET f1 == gi[c].key
                   f2 == gi[d].key
                   r2 == gi[d].ret.PaymentRequest
               IN /\ f1 \in DOMAIN keyToInvoice'
                  /\ f2 \in DOMAIN keyToInvoice'
                  /\ keyToInvoice'[f2] = gi[d].ret
                  /\ keyToInvoice'[f1].PaymentRequest # r2
                  /\ keyToInvoice'[f1].PaymentRequest \in DOMAIN invoiceToKey'
                  /\ invoiceToKey'[keyToInvoice'[f1].PaymentRequest] = f1
                  /\ r2 \in DOMAIN invoiceToKey'
                  /\ invoiceToKey'[r2] = f2]_vars

\* The consumer step that reads bytes which do not unmarshal.
MalformedRead ==
    rc.pc = "l187" /\ rc' # rc /\ rc'.last = "malformed" /\ ~crashed'

\* C14: reading a feed message that does not unmarshal changes neither map,
\* sends nothing and leaves every goroutine but the consumer where it is; the
\* consumer is back at the top of its loop with fresh locals, as it was
\* before the message, and leaves the loop only if the stream has ended.
C14_MalformedSkipped ==
    [][MalformedRead =>
           /\ UNCHANGED <<keyToInvoice, invoiceToKey, mutex, now, crashed, gi,
                          calls, handedOut, nextRef, reaper, sent, ci>>
           /\ rc' = [RcStart EXCEPT
                        !.pc = IF rc'.eof THEN "closed" ELSE "l187",
                        !.eof = rc'.eof,
                        !.last = "malformed"]]_vars

\* C14 witness: a malformed message has been skipped with an entry in the
\* cache, and the consumer is reading on.
C14_Witness ==
    /\ rc.pc = "l187" /\ rc.last = "malformed" /\ ~rc.eof
    /\ \E r \in DOMAIN invoiceToKey : r # EmptyRef

\* The consumer step that leaves the loop (the break of line 217).
LoopEnds == rc.pc # "closed" /\ rc'.pc = "closed" /\ ~crashed'

SendFailed == rc.pc = "l206" /\ rc'.last = "smsErr" /\ ~crashed'

\* C16: when sms.Send returns an error for a settled payment request, its
\* reverse entry and the forward entry of its fingerprint are removed all the
\* same and no other entry changes, no further sms.Send is made for it, the
\* mutex is released, and the consumer goes on to the next read (or leaves
\* the loop at the end of the stream) keeping nothing of the event.
C16_SendFailureOnlyLogged ==
    [][SendFailed =>
           /\ invoiceToKey' = MapDelete(invoiceToKey, rc.ref)
           /\ keyToInvoice' = MapDelete(keyToInvoice, rc.key)
           /\ rc.ref \notin DOMAIN invoiceToKey'
           /\ rc.key \notin DOMAIN keyToInvoice'
           /\ sent' = sent /\ Len(sent) = rc.sent0 + 1
           /\ mutex' = Free
           /\ rc' = [RcStart EXCEPT
                        !.pc = IF rc.eof THEN "closed" ELSE "l187",
                        !.eof = rc.eof,
                        !.last = "smsErr"]]_vars

\* C16 witness: a notification has failed; its payment request is gone from
\* the reverse map and the consumer is reading the next event.
C16_Witness ==
    /\ rc.pc = "l187" /\ rc.last = "smsErr" /\ ~rc.eof
    /\ Len(sent) = 1
    /\ sent[1].ref # EmptyRef
    /\ sent[1].ref \notin DOMAIN invoiceToKey
    /\ \A f \in DOMAIN keyToInvoice :
           keyToInvoice[f].PaymentRequest # sent[1].ref

\* C17: no two records in the forward map carry the same payment request.
C17_ForwardReferencesDistinct ==
    \A f1, f2 \in DOMAIN keyToInvoice :
        f1 # f2 =>
            keyToInvoice[f1].PaymentRequest # keyToInvoice[f2].PaymentRequest

\* The step in which the reaper of call n runs lines 160-166.
ReaperStep(n) ==
    reaper[n].pc = "sleeping" /\ reaper'[n].pc = "done" /\ ~crashed'

\* C18: the reaper started for payment request r leaves in place every
\* forward record whose payment request is not r.
C18_ReaperSparesNewerRecord ==
    [][\A n \in CallIds :
           ReaperStep(n) =>
               \A f \in DOMAIN keyToInvoice :
                   keyToInvoice[f].PaymentRequest # reaper[n].ref =>
                       /\ f \in DOMAIN keyToInvoice'
                       /\ keyToInvoice'[f] = keyToInvoice[f]]_vars

\* C19: the consumer, when it has notified the settled payment request r,
\* leaves in place every forward record whose payment request is not r.
C19_ConsumerSparesNewerRecord ==
    [][(EventDone /\ rc.pc = "l206") =>
           \A f \in DOMAIN keyToInvoice :
               keyToInvoice[f].PaymentRequest # rc.ref =>
                   /\ f \in DOMAIN keyToInvoice'
                   /\ keyToInvoice'[f] = keyToInvoice[f]]_vars

\* C20: while sms.Send is in progress the consumer does not hold the mutex.
C20_SendOutsideMutex ==
    rc.pc = "l206" => mutex = Free

\* C21: while the POST request of one GetInvoice call is outstanding and the
\* consumer is not inside sms.Send, every other goroutine that is about to
\* lock the mutex can lock it and run its critical section: GetInvoice calls
\* of the other goroutine (lines 109-111 and 153-156), CheckInvoice, a reaper
\* whose sleep is over, and the consumer's lookup; and a consumer inside
\* sms.Send can finish and unlock.
C21_IssuerCallOutsideMutex ==
    \A c \in Callers :
        gi[c].pc = "l132" =>
            /\ mutex # ByConsumer =>
                   /\ \A d \in Callers \ {c} :
                          /\ gi[d].pc = "l109" =>
                                 ENABLED (\E p \in BOOLEAN : GI_Check(d, p))
                          /\ gi[d].pc = "l153" => ENABLED GI_Store(d)
                   /\ ci.pc = "l223" => ENABLED CI_Return
                   /\ \A n \in CallIds :
                          (reaper[n].pc = "sleeping" /\ now >= reaper[n].wake)
                              => ENABLED RP_Remove(n)
                   /\ rc.pc = "l203" => ENABLED RC_Lookup
            /\ rc.pc = "l206" =>
                   ENABLED (\E smsOk \in BOOLEAN : RC_SendDone(smsOk))

\* C21 witness: while the POST request of one call is outstanding, a call
\* for another fingerprint that sampled its time later has stored and
\* returned its record, and a CheckInvoice call is about to lock the mutex.
C21_Witness ==
    \E c, d \in Callers :
        /\ gi[c].pc = "l132"
        /\ gi[d].pc = "done" /\ gi[d].issued
        /\ gi[d].key # gi[c].key
        /\ gi[d].ret.Expiry > gi[c].nowv + TTL
        /\ gi[d].key \in DOMAIN keyToInvoice
        /\ keyToInvoice[gi[d].key] = gi[d].ret
        /\ ci.pc = "l223"
        /\ mutex = Free

\* The consumer step that runs lines 203-206 (or 203-204, 212-213).
LookupStep == rc.pc = "l203" /\ rc' # rc /\ ~crashed'

C23_OneReaperPerStore ==
    [][/\ \A c \in Callers :
              StoreStep(c) =>
                  /\ reaper[gi[c].n].pc = "none"
                  /\ reaper'[gi[c].n].pc = "sleeping"
                  /\ reaper'[gi[c].n].ref = gi[c].resp
                  /\ reaper'[gi[c].n].wake = now + TTL
                  /\ \A m \in CallIds \ {gi[c].n} : reaper'[m] = reaper[m]
       /\ ((\A c \in Callers : ~StoreStep(c)) /\ ~crashed') =>
              \A m \in CallIds :
                  reaper[m].pc = "none" => reaper'[m].pc = "none"
       /\ \A n \in CallIds :
              /\ ReaperStep(n) =>
                     /\ now >= reaper[n].wake
                     /\ reaper'[n].pc = "done"
                     /\ sent' = sent
                     /\ reaper[n].ref \notin DOMAIN invoiceToKey =>
                            /\ keyToInvoice' = keyToInvoice
                            /\ invoiceToKey' = invoiceToKey
              /\ (reaper[n].pc = "done" /\ ~crashed') =>
                     reaper'[n] = reaper[n]]_vars

\* C23 witness: the reaper of a payment request whose notification was sent
\* has run and found nothing, and both maps are empty.
C23_Witness ==
    \E n \in CallIds :
        /\ reaper[n].pc = "done" /\ ~reaper[n].found
        /\ reaper[n].ref # EmptyRef
        /\ Len(sent) = 1
        /\ keyToInvoice = EmptyMap /\ invoiceToKey = EmptyMap

\* The consumer step that reads an event with an error field.
ErrorRead == rc.pc = "l187" /\ rc' # rc /\ rc'.last = "error" /\ ~crashed'

\* C24: reading a feed event that carries an error field changes neither
\* map, sends nothing and leaves every goroutine but the consumer where it
\* is, whatever the state and the payment request of the event; the consumer
\* is back at the read of line 187.
C24_ErrorEventSkipped ==
    [][ErrorRead =>
           /\ UNCHANGED <<keyToInvoice, invoiceToKey, mutex, now, crashed, gi,
                          calls, handedOut, nextRef, reaper, sent, ci>>
           /\ rc'.pc = "l187"
           /\ rc'.key = RcStart.key /\ ~rc'.live /\ rc'.sent0 = 0]_vars

\* C24 witness: an event with an error field for a payment request that is
\* in the cache has been skipped; the entries are there, nothing was sent,
\* and the consumer is reading on.
C24_Witness ==
    /\ rc.pc = "l187" /\ rc.last = "error" /\ ~rc.eof
    /\ rc.ref # EmptyRef /\ rc.ref \in DOMAIN invoiceToKey
    /\ invoiceToKey[rc.ref] \in DOMAIN keyToInvoice
    /\ keyToInvoice[invoiceToKey[rc.ref]].PaymentRequest = rc.ref
    /\ sent = <<>>

\* The consumer step that reads an event without error field whose state is
\* not SETTLED.
OpenRead == rc.pc = "l187" /\ rc' # rc /\ rc'.last = "open" /\ ~crashed'

\* C25: reading a well-formed feed event whose state is not SETTLED changes
\* neither map, sends nothing and leaves every goroutine but the consumer
\* where it is, whatever its payment request; the consumer is back at the
\* read of line 187.  A reverse entry goes away only in a step of a reaper
\* started for its payment request, in the consumer's step that ends the
\* handling of a settled event for its payment request, or when the process
\* exits.
C25_OpenEventIgnored ==
    [][/\ OpenRead =>
              /\ UNCHANGED <<keyToInvoice, invoiceToKey, mutex, now, crashed,
                             gi, calls, handedOut, nextRef, reaper, sent, ci>>
              /\ rc'.pc = "l187"
              /\ rc'.key = RcStart.key /\ ~rc'.live /\ rc'.sent0 = 0
       /\ \A r \in DOMAIN invoiceToKey :
              (r \notin DOMAIN invoiceToKey' /\ ~crashed') =>
                  \/ \E n \in CallIds : ReaperStep(n) /\ reaper[n].ref = r
                  \/ /\ rc.pc = "l206" /\ rc.ref = r
                     /\ rc'.pc \in {"l187", "closed"}]_vars

\* C25 witness: an event in another state for a payment request that is in
\* the cache has been ignored; the record is there, unexpired, nothing was
\* sent, and the consumer is reading on.
C25_Witness ==
    /\ rc.pc = "l187" /\ rc.last = "open" /\ ~rc.eof
    /\ rc.ref # EmptyRef /\ rc.ref \in DOMAIN invoiceToKey
    /\ Unexpired(invoiceToKey[rc.ref])
    /\ keyToInvoice[invoiceToKey[rc.ref]].PaymentRequest = rc.ref
    /\ sent = <<>>

\* C26: a read of the feed that fails with an error other than io.EOF ends
\* the process, whatever bytes came with the error: the step sends nothing,
\* both maps are gone with the process and the consumer is at none of its
\* lines; and once the process has exited no step follows, so no event is
\* read, no map changes, nothing is sent and no consumer runs again.
C26_ReadErrorIsFatal ==
    [][/\ \A kind \in MsgKinds, ref \in EventRefs :
              RC_Read(kind, ref, "other") =>
                  /\ crashed'
                  /\ sent' = sent
                  /\ keyToInvoice' = EmptyMap /\ invoiceToKey' = EmptyMap
                  /\ rc' = RcStart /\ mutex' = Free
       /\ ~crashed]_vars

\* C26 witness: the process has exited with a payment request handed out
\* and no notification sent.
C26_Witness ==
    /\ crashed
    /\ \E r \in handedOut : r # EmptyRef
    /\ sent = <<>>

\* C27: sms.Send is called only in the consumer's lookup step for a settled
\* event, for the payment request of that event, which is then in the
\* reverse map, was created by lnd for a GetInvoice call, and is bound to
\* the one fingerprint it was stored for, whose Message is sent; a payment
\* request is bound in the reverse map only by the store of a GetInvoice
\* call that received it, and is never bound a second time.
C27_SendOnlyForIssuedSettled ==
    [][/\ sent' # sent =>
              /\ LookupStep
              /\ rc.ref \in DOMAIN invoiceToKey
              /\ rc.ref \in 1 .. (nextRef - 1)
              /\ sent' = Append(sent,
                                [ref |-> rc.ref,
                                 msg |-> Message(invoiceToKey[rc.ref])])
       /\ \A r \in DOMAIN invoiceToKey' :
              (r \notin DOMAIN invoiceToKey \/ invoiceToKey'[r] # invoiceToKey[r])
              => /\ \E c \in Callers : /\ StoreStep(c)
                                       /\ gi[c].resp = r
                                       /\ invoiceToKey'[r] = gi[c].key
                 /\ r \notin handedOut]_vars

\* The calls whose store received the payment request r from lnd.
StoresOf(r) == {n \in CallIds : reaper[n].pc # "none" /\ reaper[n].ref = r}

\* C28: as long as no two stores have received the same payment request,
\* every record in the forward map has its reverse entry: the payment
\* request of the record of fingerprint f is in the reverse map and is bound
\* to f.
C28_ForwardHasReverse ==
    (\A r \in Refs : Cardinality(StoresOf(r)) <= 1) =>
        \A f \in DOMAIN keyToInvoice :
            /\ keyToInvoice[f].PaymentRequest \in DOMAIN invoiceToKey
            /\ invoiceToKey[keyToInvoice[f].PaymentRequest] = f

\* C28 witness: a second issuance for a fingerprint has replaced its record
\* while the reverse entry of the first is still there, and the settled
\* event of the first payment request is being handled.
C28_Witness ==
    \E f \in DOMAIN keyToInvoice :
        /\ keyToInvoice[f].PaymentRequest # EmptyRef
        /\ keyToInvoice[f].PaymentRequest \in DOMAIN invoiceToKey
        /\ invoiceToKey[keyToInvoice[f].PaymentRequest] = f
        /\ \E r \in DOMAIN invoiceToKey :
               /\ r # EmptyRef /\ r # keyToInvoice[f].PaymentRequest
               /\ invoiceToKey[r] = f
               /\ rc.pc = "l206" /\ rc.ref = r

\* C29: under the fair scheduler every payment request in the reverse map
\* is eventually out of it, and from some time on both maps are empty for
\* good.
C29_CacheEndsEmpty ==
    /\ \A r \in Refs :
           (r \in DOMAIN invoiceToKey) ~> (r \notin DOMAIN invoiceToKey)
    /\ <>[](keyToInvoice = EmptyMap /\ invoiceToKey = EmptyMap)

\* C30: the record a GetInvoice call stores expires TTL after the time the
\* call sampled at line 113, which is not later than the time of the store,
\* and its reaper wakes TTL after the time of the store, so not before the
\* Expiry; the wake time of a sleeping reaper does not change and the reaper
\* runs only when it has come; when a reaper removes the record its call
\* stored (the record with its payment request, no other store having
\* received that payment request), the Expiry of the record is behind it.
C30_ReapNotBeforeExpiry ==
    [][/\ \A c \in Callers :
              StoreStep(c) =>
                  /\ gi[c].nowv <= now
                  /\ keyToInvoice'[gi[c].key] =
                         Invoice(gi[c].resp, gi[c].nowv + TTL)
                  /\ reaper'[gi[c].n].wake = now + TTL
                  /\ reaper'[gi[c].n].wake >= keyToInvoice'[gi[c].key].Expiry
       /\ \A n \in CallIds :
              /\ (reaper[n].pc = "sleeping" /\ ~crashed') =>
                     reaper'[n].wake = reaper[n].wake
              /\ ReaperStep(n) =>
                     /\ now >= reaper[n].wake
                     /\ \A f \in DOMAIN keyToInvoice :
                            (/\ f \notin DOMAIN keyToInvoice'
                             /\ keyToInvoice[f].PaymentRequest = reaper[n].ref
                             /\ StoresOf(reaper[n].ref) = {n})
                            => keyToInvoice[f].Expiry <= now]_vars

\* C30 witness: the issuer call took the whole validity duration; the record
\* is stored and already expired, and its reaper is asleep for another TTL.
C30_Witness ==
    \E f \in DOMAIN keyToInvoice, n \in CallIds :
        /\ keyToInvoice[f].PaymentRequest # EmptyRef
        /\ keyToInvoice[f].Expiry <= now
        /\ invoiceToKey[keyToInvoice[f].PaymentRequest] = f
        /\ reaper[n].pc = "sleeping"
        /\ reaper[n].ref = keyToInvoice[f].PaymentRequest
        /\ reaper[n].wake > now
        /\ reaper[n].wake > keyToInvoice[f].Expiry

\* The consumer step in which sms.Send returns (lines 206-213).
SendDoneStep == rc.pc = "l206" /\ rc' # rc /\ ~crashed'

\* C31: the consumer's lookup for a settled event calls sms.Send exactly when
\* the payment request of the event is in the reverse map, whatever the
\* Expiry of the record and whether or not its reaper has run; when sms.Send
\* has returned, the reverse entry and the forward entry of its fingerprint
\* are deleted and nothing more is sent.
C31_SettledNotifiesAfterExpiry ==
    [][/\ LookupStep =>
              IF rc.ref \in DOMAIN invoiceToKey
              THEN /\ sent' = Append(sent,
                                     [ref |-> rc.ref,
                                      msg |-> Message(invoiceToKey[rc.ref])])
                   /\ rc'.pc = "l206" /\ rc'.ref = rc.ref
                   /\ rc'.key = invoiceToKey[rc.ref]
              ELSE sent' = sent
       /\ SendDoneStep =>
              /\ sent' = sent
              /\ invoiceToKey' = MapDelete(invoiceToKey, rc.ref)
              /\ keyToInvoice' = MapDelete(keyToInvoice, rc.key)]_vars

\* C31 witness: the record that GetInvoice returned has expired, its reaper
\* is still asleep, and the settled event of its payment request has been
\* notified once and its entries removed.
C31_Witness ==
    \E c \in Callers, n \in CallIds :
        /\ gi[c].pc = "done" /\ gi[c].issued
        /\ gi[c].ret.PaymentRequest # EmptyRef
        /\ gi[c].ret.Expiry <= now
        /\ reaper[n].pc = "sleeping"
        /\ reaper[n].ref = gi[c].ret.PaymentRequest
        /\ reaper[n].wake > now
        /\ sent = <<[ref |-> gi[c].ret.PaymentRequest,
                     msg |-> Message(gi[c].key)]>>
        /\ rc.pc = "l187"
        /\ keyToInvoice = EmptyMap /\ invoiceToKey = EmptyMap

\* C32: the mutex is locked between steps only by the consumer while it is
\* inside sms.Send, every other critical section having unlocked on each
\* of its paths; whenever the mutex is free, every goroutine that is about to
\* lock it can: a GetInvoice call at line 109 or 153, a reaper whose sleep is
\* over, the consumer at line 203 and CheckInvoice; and when sms.Send
\* returns, a locked mutex is unlocked again.
C32_MutexAlwaysReleased ==
    /\ [](mutex # Free => (mutex = ByConsumer /\ rc.pc = "l206"))
    /\ []((mutex = Free /\ ~crashed) =>
              /\ \A c \in Callers :
                     /\ gi[c].pc = "l109" =>
                            ENABLED (\E p \in BOOLEAN : GI_Check(c, p))
                     /\ gi[c].pc = "l153" => ENABLED GI_Store(c)
              /\ \A n \in CallIds :
                     (reaper[n].pc = "sleeping" /\ now >= reaper[n].wake)
                     => ENABLED RP_Remove(n)
              /\ rc.pc = "l203" => ENABLED RC_Lookup
              /\ ci.pc = "l223" => ENABLED CI_Return)
    /\ (mutex # Free) ~> (mutex = Free)

\* C32 witness: the consumer is inside sms.Send with the mutex locked while
\* CheckInvoice and a reaper whose sleep is over wait for it.
C32_Witness ==
    /\ mutex = ByConsumer /\ rc.pc = "l206"
    /\ ci.pc = "l223"
    /\ \E n \in CallIds : reaper[n].pc = "sleeping" /\ now >= reaper[n].wake

\* C33: a GetInvoice call that finds no unexpired record and whose
\* GetSatsToPay returns a negative amount returns Invoice{} at once: its
\* check step leaves it done, never having issued, with both maps, the
\* reapers, lnd's counter of created invoices, the payment requests handed
\* out and the notifications sent all unchanged, and the mutex free.
C33_PriceFailureReturnsEmpty ==
    [][\A c \in Callers :
           (GI_Check(c, FALSE) /\ ~Unexpired(gi[c].key)) =>
               /\ gi'[c].pc = "done"
               /\ gi'[c].ret = ZeroInvoice
               /\ ~gi'[c].issued
               /\ mutex' = Free
               /\ UNCHANGED <<keyToInvoice, invoiceToKey, reaper, nextRef,
                              handedOut, sent, crashed>>]_vars

\* C33 witness: a call has returned Invoice{} without issuing; nothing is
\* stored, no reaper was started and lnd has created no invoice.
C33_Witness ==
    \E c \in Callers :
        /\ calls = 1
        /\ gi[c].pc = "done" /\ ~gi[c].issued /\ gi[c].ret = ZeroInvoice
        /\ keyToInvoice = EmptyMap /\ invoiceToKey = EmptyMap
        /\ \A n \in CallIds : reaper[n].pc = "none"
        /\ nextRef = 1 /\ handedOut = {}
        /\ ~crashed

\* C34: once main serves requests, and whenever CheckHandler is about to
\* call CheckInvoice, InitHandler has set InvoiceHandler (with both maps
\* made) and has started the consumer.
C34_CheckOnInitializedHandler ==
    /\ boot.main = "l49" =>
           (boot.InvoiceHandler = "set" /\ boot.consumer)
    /\ \A g \in Servers :
           boot.req[g].pc = "l104" =>
               (boot.InvoiceHandler = "set" /\ boot.consumer)

\* C35: sendToParkingServer is called at most once for a payment hash,
\* whatever polls are made; a poll calls it only for a hash that LNbits
\* reports paid, with a zone other than Donate and with plate, zone and
\* hours all given.
C35_SendAtMostOncePerPayment ==
    [][\A h \in Hashes :
           /\ pay'.sends[h] <= 1
           /\ pay'.sends[h] # pay.sends[h] =>
                  /\ h \in pay.paid
                  /\ pay'.last.hash = h /\ pay'.last.resp = "paid"
                  /\ pay'.last.zone \notin {"", "Donate"}
                  /\ pay'.last.plate # "" /\ pay'.last.hours # ""]_vars

\* C36: the fee computed for a zone and a number of hours is the price of
\* the zone times the hours, or times MaxTime when the hours exceed it; no
\* larger number of hours gives a smaller fee; and for every number of hours
\* from MaxTime on the fee is that of MaxTime hours.
C36_FeeCappedAtMaxTime ==
    fee.called =>
        LET z == Zones[fee.zone]
        IN /\ fee.out = (IF fee.hours <= z.MaxTime THEN fee.hours
                                                   ELSE z.MaxTime) * z.Price
           /\ \A h \in HoursRange :
                  h >= fee.hours => GetParkingFee(z, h) >= fee.out
           /\ fee.hours >= z.MaxTime =>
                  /\ fee.out = z.MaxTime * z.Price
                  /\ \A h \in HoursRange :
                         h >= z.MaxTime => GetParkingFee(z, h) = fee.out

\* C36 witness: a fee was computed for more hours than the zone allows and
\* is the fee of MaxTime hours.
C36_Witness ==
    /\ fee.called
    /\ fee.hours > Zones[fee.zone].MaxTime
    /\ fee.out = Zones[fee.zone].MaxTime * Zones[fee.zone].Price
    /\ fee.out > 0

====
